---- MODULE Spec2Model ----
(***************************************************************************)
(* TrustShield core engine (local-business-app/js/app.js).                 *)
(*                                                                         *)
(* State: the two module-level globals businessesData and globalAverage,   *)
(* the business records (ratings plus the cache fields rawAverage,         *)
(* entropy, finalTrust that calculateTrustScore writes), the settlement of *)
(* the fetch promise, the rendered cards and the modal.                    *)
(*                                                                         *)
(* JavaScript numbers are modelled as exact rationals n/d in lowest terms, *)
(* together with the values NaN, undefined and +/-Infinity.  The library   *)
(* functions Math.log, Math.sqrt and Math.exp are not rational; they are   *)
(* evaluated in fixed point (LogScale, SqrtScale, ExpScale).  Rounding     *)
(* error of IEEE-754 doubles is not modelled.  A rating's date is the      *)
(* timestamp that new Date(r.date) yields for it.                          *)
(***************************************************************************)
EXTENDS Integers, Sequences, FiniteSets, TLC

VARIABLES businessesData, globalAverage, fetchState, container, modalHidden,
          categoryFilter, sortSelect, call, entropyReads, gUses, first

vars == <<businessesData, globalAverage, fetchState, container, modalHidden,
          categoryFilter, sortSelect, call, entropyReads, gUses, first>>

(***************************************************************************)
(* Bounds of the model.                                                    *)
(***************************************************************************)
MaxRatings == 3
MaxUniform == 5
MaxLong == 12
MaxBusinesses == 2

(***************************************************************************)
(* JavaScript values.                                                      *)
(***************************************************************************)
RECURSIVE GCD(_, _)
GCD(a, b) == IF b = 0 THEN a ELSE GCD(b, a % b)

Abs(x) == IF x < 0 THEN -x ELSE x

Sign(x) == IF x < 0 THEN -1 ELSE IF x > 0 THEN 1 ELSE 0

Reduced(n, d, g) == [k |-> "num", n |-> Sign(d) * (n \div g), d |-> Abs(d) \div g]

\* the number n/d (d # 0) in lowest terms with a positive denominator
Num(n, d) == Reduced(n, d, GCD(Abs(n), Abs(d)))

I(n) == [k |-> "num", n |-> n, d |-> 1]

NaN == [k |-> "nan", n |-> 0, d |-> 1]

Undefined == [k |-> "undef", n |-> 0, d |-> 1]

Infinity(s) == [k |-> "inf", n |-> s, d |-> 1]

\* marks "no value recorded yet" in the observation variables
None == [k |-> "none", n |-> 0, d |-> 1]

\* x + y when an operand is not a finite number (undefined converts to NaN)
AddSpecial(x, y) ==
  IF x.k \in {"nan", "undef"} \/ y.k \in {"nan", "undef"} THEN NaN
  ELSE IF x.k = "inf" /\ y.k = "inf" THEN (IF x.n = y.n THEN x ELSE NaN)
  ELSE IF x.k = "inf" THEN x ELSE y

AddOver(x, y, g) ==
  Num(x.n * (y.d \div g) + y.n * (x.d \div g), x.d * (y.d \div g))

Add(x, y) ==
  IF x.k = "num" /\ y.k = "num" THEN AddOver(x, y, GCD(x.d, y.d)) ELSE AddSpecial(x, y)

Neg(x) ==
  IF x.k \in {"nan", "undef"} THEN NaN ELSE [x EXCEPT !.n = -x.n]

Sub(x, y) == Add(x, Neg(y))

\* x * y when an operand is not a finite number
MulSpecial(x, y) ==
  IF x.k \in {"nan", "undef"} \/ y.k \in {"nan", "undef"} THEN NaN
  ELSE IF x.n = 0 \/ y.n = 0 THEN NaN
  ELSE Infinity(Sign(x.n) * Sign(y.n))

MulOver(x, y, g1, g2) ==
  Num((x.n \div g1) * (y.n \div g2), (x.d \div g2) * (y.d \div g1))

Mul(x, y) ==
  IF x.k = "num" /\ y.k = "num"
    THEN MulOver(x, y, GCD(Abs(x.n), y.d), GCD(Abs(y.n), x.d))
    ELSE MulSpecial(x, y)

\* x / y when an operand is not a finite number or y is zero
DivSpecial(x, y) ==
  IF x.k \in {"nan", "undef"} \/ y.k \in {"nan", "undef"} THEN NaN
  ELSE IF x.k = "inf" THEN (IF y.k = "inf" THEN NaN
                            ELSE Infinity(x.n * (IF y.n < 0 THEN -1 ELSE 1)))
  ELSE IF y.k = "inf" THEN I(0)
  ELSE IF x.n = 0 THEN NaN
  ELSE Infinity(Sign(x.n))

Div(x, y) ==
  IF x.k = "num" /\ y.k = "num" /\ y.n # 0
    THEN Mul(x, Num(y.d, y.n))
    ELSE DivSpecial(x, y)

\* x < y; every comparison with NaN is false
Less(x, y) ==
  IF x.k \in {"nan", "undef"} \/ y.k \in {"nan", "undef"} THEN FALSE
  ELSE IF x.k = "inf" THEN x.n < 0 /\ ~(y.k = "inf" /\ y.n < 0)
  ELSE IF y.k = "inf" THEN y.n > 0
  ELSE x.n * y.d < y.n * x.d

\* floor((n/d) * scale) for a power of ten scale, digit by digit
RECURSIVE FloorScaled(_, _, _)
FloorScaled(n, d, scale) ==
  IF scale = 1 THEN n \div d
  ELSE (n \div d) * scale + FloorScaled((n % d) * 10, d, scale \div 10)

(***************************************************************************)
(* Library functions, in fixed point.                                      *)
(***************************************************************************)
LogScale == 10 * 10 * 10
SqrtScale == 10 * 10
ExpScale == 10 * 10 * 10

\* ln(p) * LogScale for the primes that occur as factors of rating counts
LnPrime(p) ==
  CASE p = 2 -> 693
    [] p = 3 -> 1099
    [] p = 5 -> 1609
    [] p = 7 -> 1946
    [] p = 11 -> 2398
    [] p = 13 -> 2565
    [] p = 17 -> 2833
    [] p = 19 -> 2944
    [] p = 23 -> 3135

SmallestFactor(n) == CHOOSE p \in 2..n : n % p = 0 /\ \A q \in 2..(p - 1) : n % q # 0

\* ln(n) * LogScale, additive over the factorisation of n
RECURSIVE LnInt(_)
LnInt(n) ==
  IF n = 1 THEN 0 ELSE LnPrime(SmallestFactor(n)) + LnInt(n \div SmallestFactor(n))

\* Math.log
MathLog(x) ==
  IF x.k \in {"nan", "undef"} THEN NaN
  ELSE IF x.k = "inf" THEN (IF x.n > 0 THEN x ELSE NaN)
  ELSE IF x.n < 0 THEN NaN
  ELSE IF x.n = 0 THEN Infinity(-1)
  ELSE Num(LnInt(x.n) - LnInt(x.d), LogScale)

\* largest r with r * r <= x, by bisection on lo <= r < hi
RECURSIVE Isqrt(_, _, _)
Isqrt(x, lo, hi) ==
  IF hi - lo <= 1 THEN lo
  ELSE IF ((lo + hi) \div 2) * ((lo + hi) \div 2) <= x
    THEN Isqrt(x, (lo + hi) \div 2, hi)
    ELSE Isqrt(x, lo, (lo + hi) \div 2)

RootOf(y) == Num(Isqrt(y, 0, y + 2), SqrtScale)

\* Math.sqrt
MathSqrt(x) ==
  IF x.k \in {"nan", "undef"} THEN NaN
  ELSE IF x.k = "inf" THEN (IF x.n > 0 THEN x ELSE NaN)
  ELSE IF x.n < 0 THEN NaN
  ELSE RootOf(FloorScaled(x.n, x.d, SqrtScale * SqrtScale))

\* sum of t^k / k! in fixed point, for t >= 0
RECURSIVE ExpSeries(_, _, _, _)
ExpSeries(t, k, term, acc) ==
  IF term = 0 THEN acc
  ELSE ExpSeries(t, k + 1, (term * t) \div (k * ExpScale), acc + term)

ExpOf(t) ==
  IF t >= 0 THEN Num(ExpSeries(t, 1, ExpScale, 0), ExpScale)
  ELSE Num(ExpScale, ExpSeries(-t, 1, ExpScale, 0))

\* Math.exp
MathExp(x) ==
  IF x.k \in {"nan", "undef"} THEN NaN
  ELSE IF x.k = "inf" THEN (IF x.n > 0 THEN x ELSE I(0))
  ELSE ExpOf(FloorScaled(x.n, x.d, ExpScale))

\* Math.floor(x), the mutant of Math.round
MathRound_floor(x) ==
  IF x.k = "undef" THEN NaN ELSE IF x.k # "num" THEN x ELSE I(x.n \div x.d)

\* Math.round: the nearest integer, halves towards +Infinity
MathRound(x) ==
  IF x.k = "undef" THEN NaN
  ELSE IF x.k # "num" THEN x
  ELSE I((2 * x.n + x.d) \div (2 * x.d))

\* Math.max and Math.min: NaN if either argument is NaN
MathMax(x, y) ==
  IF x.k \in {"nan", "undef"} \/ y.k \in {"nan", "undef"} THEN NaN
  ELSE IF Less(x, y) THEN y ELSE x

MathMin(x, y) ==
  IF x.k \in {"nan", "undef"} \/ y.k \in {"nan", "undef"} THEN NaN
  ELSE IF Less(y, x) THEN y ELSE x

(***************************************************************************)
(* Array helpers.                                                          *)
(***************************************************************************)
\* b.ratings.map(r => r.score)
ScoresOf(b) == [i \in 1..Len(b.ratings) |-> b.ratings[i].score]

\* ratings.reduce((a, b) => a + b, 0)
RECURSIVE SumSeq(_)
SumSeq(s) == IF s = <<>> THEN 0 ELSE Head(s) + SumSeq(Tail(s))

\* s.filter(r => r === x).length
CountEq(s, x) == Cardinality({i \in 1..Len(s) : s[i] = x})

\* recent.filter(r => r.score === 5).length
CountFive(recent) == Cardinality({i \in 1..Len(recent) : recent[i].score = 5})

\* Array.prototype.sort with a comparator key(a) - key(b): a stable sort by key
RECURSIVE InsertByKey(_, _)
InsertByKey(x, s) ==
  IF s = <<>> THEN <<x>>
  ELSE IF x.key < Head(s).key THEN <<x>> \o s
  ELSE <<Head(s)>> \o InsertByKey(x, Tail(s))

RECURSIVE SortByKey(_, _)
SortByKey(s, acc) ==
  IF s = <<>> THEN acc ELSE SortByKey(Tail(s), InsertByKey(Head(s), acc))

\* s.slice(n), the mutant of s.slice(-n): drops the first n elements
SliceLast_fromStart(s, n) ==
  IF Len(s) <= n THEN <<>> ELSE SubSeq(s, n + 1, Len(s))

\* s.slice(-n): the last n elements (all of s when it is shorter)
SliceLast(s, n) ==
  IF Len(s) <= n THEN s ELSE SubSeq(s, Len(s) - n + 1, Len(s))

(***************************************************************************)
(* The engine.  A business is a record                                     *)
(*   [name, category, ratings, rawAverage, entropy, finalTrust]            *)
(* whose ratings are records [score, date]; the three cache fields are     *)
(* Undefined on a record as parsed from the dataset.  An operator that     *)
(* models a function taking a business returns the record as the call      *)
(* leaves it, next to the value returned.                                  *)
(***************************************************************************)
\* Bayesian prior weight
m == 15

\* the array "all" of computeGlobalAverage: every score of every business
RECURSIVE AllScores(_)
AllScores(data) ==
  IF data = <<>> THEN <<>> ELSE ScoresOf(Head(data)) \o AllScores(Tail(data))

\* ratings.reduce((a, b) => a + b, 0) / ratings.length
MeanOf(ratings) == Div(I(SumSeq(ratings)), I(Len(ratings)))

\* computeGlobalAverage(): the value it stores in globalAverage
computeGlobalAverage(data) == MeanOf(AllScores(data))

\* (m/v)*globalAverage as the prior term, the mutant of the Bayesian smoothing
Bayes_priorOverV(v, R, g) ==
  Add(Mul(Div(I(v), I(v + m)), R), Mul(Div(I(m), I(v)), g))

\* Bayesian smoothing
Bayes(v, R, g) ==
  Add(Mul(Div(I(v), I(v + m)), R), Mul(Div(I(m), I(v + m)), g))

\* counts = [0,0,0,0,0]; ratings.forEach(r => counts[r-1]++)
Counts(ratings) == [i \in 1..5 |-> CountEq(ratings, i)]

\* p * Math.log(p)
PLogP(p) == Mul(p, MathLog(p))

\* counts.forEach(c => { if (c > 0) { p = c/v; entropy -= p * Math.log(p) } })
RECURSIVE EntropyOf(_, _, _, _)
EntropyOf(counts, i, v, entropy) ==
  IF i > Len(counts) THEN entropy
  ELSE EntropyOf(counts, i + 1, v,
                 IF counts[i] > 0
                   THEN Sub(entropy, PLogP(Div(I(counts[i]), I(v))))
                   ELSE entropy)

\* lines 91-95: the cache writes and the rounded result
Scored(b, R, normalized, score) ==
  [b |-> [b EXCEPT !.rawAverage = R, !.entropy = normalized, !.finalTrust = score],
   ret |-> MathRound(score),
   usedGlobal |-> TRUE]

\* line 89: score = (bayes/5)*80 + normalized*20
Weighted(b, R, bayes, normalized) ==
  Scored(b, R, normalized, Add(Mul(Div(bayes, I(5)), I(80)), Mul(normalized, I(20))))

\* lines 72-86, given the raw average
Smoothed(b, ratings, R, g) ==
  Weighted(b, R, Bayes(Len(ratings), R, g),
           Div(EntropyOf(Counts(ratings), 1, Len(ratings), I(0)), MathLog(I(5))))

\* calculateTrustScore(b): the record after the call, the value returned, and
\* whether the evaluation read globalAverage
calculateTrustScore(b, g) ==
  IF Len(b.ratings) = 0 THEN [b |-> b, ret |-> I(0), usedGlobal |-> FALSE]
  ELSE Smoothed(b, ScoresOf(b), MeanOf(ScoresOf(b)), g)

\* Math.pow(x, 2)
Square(x) == Mul(x, x)

\* ratings.reduce((sum, r) => sum + Math.pow(r - avg, 2), 0)
RECURSIVE SumSquares(_, _)
SumSquares(ratings, avg) ==
  IF ratings = <<>> THEN I(0)
  ELSE Add(Square(Sub(I(Head(ratings)), avg)), SumSquares(Tail(ratings), avg))

Deviation(ratings, avg) == MathSqrt(Div(SumSquares(ratings, avg), I(Len(ratings))))

\* calculateVolatility(b): the value returned
calculateVolatility(b) == Deviation(ScoresOf(b), MeanOf(ScoresOf(b)))

Unkeyed(sorted) == [i \in 1..Len(sorted) |-> sorted[i].val]

\* the ratings in the order of new Date(a.date) - new Date(b.date)
DateSorted(ratings) ==
  Unkeyed(SortByKey([i \in 1..Len(ratings) |->
                       [key |-> ratings[i].date, val |-> ratings[i]]], <<>>))

\* b.ratings.sort(...), the mutant of [...b.ratings].sort(...): sorts the
\* business's own array
SortedCopy_inPlace(b) ==
  [b |-> [b EXCEPT !.ratings = DateSorted(b.ratings)], sorted |-> DateSorted(b.ratings)]

\* [...b.ratings].sort(...): the business after the statement and the sorted copy
SortedCopy(b) == [b |-> b, sorted |-> DateSorted(b.ratings)]

\* lines 136-138
FiveRatio(recent) ==
  IF Len(recent) > 0 THEN Div(I(CountFive(recent)), I(Len(recent))) ELSE I(0)

Features(ratings, volatility, entropy, sc) ==
  [b |-> sc.b,
   f |-> [fiveStarRatio |-> Div(I(CountEq(ratings, 5)), I(Len(ratings))),
          volatility |-> volatility,
          entropy |-> entropy,
          recentFiveRatio |-> FiveRatio(SliceLast(sc.sorted, 10))]]

\* extractFeatures(b): the record after the call and the feature vector
extractFeatures(b) ==
  Features(ScoresOf(b), calculateVolatility(b), b.entropy, SortedCopy(b))

Hidden1(f) ==
  Add(Add(Mul(f.fiveStarRatio, Num(8, 10)), Mul(f.recentFiveRatio, Num(12, 10))),
      Mul(Sub(I(1), f.entropy), Num(6, 10)))

Hidden2(hidden1, f) ==
  Add(Mul(hidden1, Num(7, 10)), Mul(Sub(Num(5, 10), f.volatility), Num(9, 10)))

Sigmoid(hidden2) == Div(I(1), Add(I(1), MathExp(Neg(hidden2))))

\* the feed-forward evaluation of lines 157-168 on a feature vector
Network(f) == MathMin(MathMax(Sigmoid(Hidden2(Hidden1(f), f)), I(0)), I(1))

Output(e, usedGlobal) ==
  [b |-> e.b, ret |-> Network(e.f), f |-> e.f, usedGlobal |-> usedGlobal]

Predicted(t) == Output(extractFeatures(t.b), t.usedGlobal)

\* neuralNetworkPredict without its leading calculateTrustScore(b), the mutant
neuralNetworkPredict_noTrust(b, g) == Output(extractFeatures(b), FALSE)

\* neuralNetworkPredict(b): the record after the call, the value returned, the
\* feature vector it extracted, and whether globalAverage was read
neuralNetworkPredict(b, g) == Predicted(calculateTrustScore(b, g))

(***************************************************************************)
(* Rendering engine.                                                       *)
(***************************************************************************)
\* the businesses that pass the category filter, in dataset order
RECURSIVE Filtered(_, _)
Filtered(data, filter) ==
  IF data = <<>> THEN <<>>
  ELSE (IF filter = "all" \/ Head(data).category = filter THEN <<Head(data)>> ELSE <<>>)
       \o Filtered(Tail(data), filter)

ComparedItem(b, t, sort, several) ==
  IF several
    THEN [key |-> IF sort = "high" THEN -(t.ret.n) ELSE t.ret.n,
          val |-> t.b, used |-> t.usedGlobal]
    ELSE [key |-> 0, val |-> b, used |-> FALSE]

\* filtered.sort((a, b) => ...): the comparator runs calculateTrustScore on both
\* operands, so with two or more elements every element is evaluated; the key
\* orders by score, descending for "high" (B - A) and ascending otherwise (A - B)
RECURSIVE Compared(_, _, _, _)
Compared(sel, g, sort, several) ==
  IF sel = <<>> THEN <<>>
  ELSE <<ComparedItem(Head(sel), calculateTrustScore(Head(sel), g), sort, several)>>
       \o Compared(Tail(sel), g, sort, several)

Card(used, trust, n) ==
  [b |-> n.b,
   card |-> [name |-> n.b.name, trust |-> trust, deepAI |-> n.ret],
   read |-> n.f.entropy,
   used |-> used \/ n.usedGlobal]

VisitedItem(used, t, g) ==
  Card(used \/ t.usedGlobal, t.ret, neuralNetworkPredict(t.b, g))

\* filtered.forEach(b => { trust = calculateTrustScore(b);
\*                         deepAI = neuralNetworkPredict(b); ...card... })
RECURSIVE Visited(_, _)
Visited(shown, g) ==
  IF shown = <<>> THEN <<>>
  ELSE <<VisitedItem(Head(shown).used, calculateTrustScore(Head(shown).val, g), g)>>
       \o Visited(Tail(shown), g)

\* the record of data[i] after the pass over the filtered businesses
After(b, done) ==
  IF \E i \in 1..Len(done) : done[i].b.name = b.name
    THEN done[CHOOSE i \in 1..Len(done) : done[i].b.name = b.name].b
    ELSE b

Rendering(data, filter, done) ==
  [data |-> IF filter = "all"
              THEN [i \in 1..Len(done) |-> done[i].b]
              ELSE [i \in 1..Len(data) |-> After(data[i], done)],
   cards |-> [i \in 1..Len(done) |-> done[i].card],
   reads |-> {done[i].read : i \in 1..Len(done)},
   usedGlobal |-> \E i \in 1..Len(done) : done[i].used]

Sorted(sel, g, sort) == SortByKey(Compared(sel, g, sort, Len(sel) >= 2), <<>>)

\* renderBusinesses(): businessesData after the call, the cards appended to
\* the container, the entropy values extractFeatures read, and whether an
\* evaluation read globalAverage.  With the filter "all", filtered is the
\* array businessesData itself and the sort reorders it.
renderBusinesses(data, g, filter, sort) ==
  Rendering(data, filter, Visited(Sorted(Filtered(data, filter), g, sort), g))

\* businessesData.find(x => x.name === name): the index of the first match
Find(data, name) == CHOOSE i \in 1..Len(data) :
                      data[i].name = name /\ \A j \in 1..(i - 1) : data[j].name # name

(***************************************************************************)
(* Observation variables.  call describes the operation of the last step;  *)
(* entropyReads holds every value extractFeatures read from b.entropy in   *)
(* that step; gUses holds, for every evaluation in that step that read     *)
(* globalAverage, the value read and whether computeGlobalAverage had run  *)
(* on the loaded dataset; first holds what the first calculateTrustScore   *)
(* and the first neuralNetworkPredict on business 1 produced, and whether  *)
(* either has been called again since.                                     *)
(***************************************************************************)
NoFeatures == [fiveStarRatio |-> None, volatility |-> None,
               entropy |-> None, recentFiveRatio |-> None]

NoCall == [op |-> "none", idx |-> 0, ret |-> None, f |-> NoFeatures, outcome |-> "none"]

NoFirst == [score |-> None, rawAverage |-> None, entropy |-> None,
            finalTrust |-> None, fraud |-> None,
            trustAgain |-> FALSE, fraudAgain |-> FALSE]

Uses(used, g, computed) == IF used THEN {[g |-> g, computed |-> computed]} ELSE {}

(***************************************************************************)
(* The page: the fetch callback and the DOM events.                        *)
(***************************************************************************)
Categories == {"food", "retail"}

FilterValues == {"all"} \cup Categories

SortValues == {"high", "low"}

Names == <<"A", "B", "C", "D", "E">>

Business(name, category, ratings) ==
  [name |-> name, category |-> category, ratings |-> ratings,
   rawAverage |-> Undefined, entropy |-> Undefined, finalTrust |-> Undefined]

\* the rating arrays of the businesses of a fetched dataset
FetchRatingSeqs ==
  {<<>>,
   <<[score |-> 5, date |-> 1]>>,
   <<[score |-> 4, date |-> 2], [score |-> 1, date |-> 1]>>}

\* the datasets data/businesses.json may hold
FetchDatasets ==
  UNION {{[i \in 1..n |-> Business(Names[i], c[i], r[i])] :
            c \in [1..n -> Categories], r \in [1..n -> FetchRatingSeqs]} :
         n \in 0..MaxBusinesses}

Init ==
  /\ businessesData = <<>>
  /\ globalAverage = I(0)
  /\ fetchState = "pending"
  /\ container = <<>>
  /\ modalHidden = TRUE
  /\ categoryFilter \in FilterValues
  /\ sortSelect \in SortValues
  /\ call = NoCall
  /\ entropyReads = {}
  /\ gUses = {}
  /\ first = NoFirst

\* the effect of one renderBusinesses() pass r that read the global average g
Shown(r, g, computed) ==
  /\ businessesData' = r.data
  /\ container' = r.cards
  /\ entropyReads' = r.reads
  /\ gUses' = Uses(r.usedGlobal, g, computed)

\* the callback with renderBusinesses() before computeGlobalAverage(), the mutant
FetchResolved_renderFirst(data) ==
  /\ fetchState = "pending"
  /\ Shown(renderBusinesses(data, globalAverage, categoryFilter, sortSelect),
           globalAverage, FALSE)
  /\ globalAverage' = computeGlobalAverage(data)
  /\ fetchState' = "done"
  /\ call' = [NoCall EXCEPT !.op = "fetchCallback", !.outcome = "returned"]
  /\ UNCHANGED <<modalHidden, categoryFilter, sortSelect, first>>

Loaded(data, g) ==
  /\ globalAverage' = g
  /\ Shown(renderBusinesses(data, g, categoryFilter, sortSelect), g, TRUE)

\* .then(data => { businessesData = data; computeGlobalAverage(); renderBusinesses(); })
FetchResolved(data) ==
  /\ fetchState = "pending"
  /\ Loaded(data, computeGlobalAverage(data))
  /\ fetchState' = "done"
  /\ call' = [NoCall EXCEPT !.op = "fetchCallback", !.outcome = "returned"]
  /\ UNCHANGED <<modalHidden, categoryFilter, sortSelect, first>>

\* renderBusinesses() as the handler of a change event, the select showing
\* the values filter and sort
Rendered(filter, sort) ==
  /\ Shown(renderBusinesses(businessesData, globalAverage, filter, sort),
           globalAverage, fetchState = "done")
  /\ call' = [NoCall EXCEPT !.op = "renderBusinesses", !.outcome = "returned"]
  /\ UNCHANGED <<globalAverage, fetchState, modalHidden, first>>

\* "change" on #categoryFilter
CategoryFilterChange(v) ==
  /\ v # categoryFilter
  /\ categoryFilter' = v
  /\ UNCHANGED sortSelect
  /\ Rendered(v, sortSelect)

\* "change" on #sortSelect
SortSelectChange(v) ==
  /\ v # sortSelect
  /\ sortSelect' = v
  /\ UNCHANGED categoryFilter
  /\ Rendered(categoryFilter, v)

\* the rest of showBreakdown once neuralNetworkPredict returned n for
\* businessesData[i]: b.rawAverage.toFixed throws a TypeError when rawAverage
\* is undefined, before the modal is shown
Broken(i, n, used) ==
  /\ businessesData' = [businessesData EXCEPT ![i] = n.b]
  /\ entropyReads' = {n.f.entropy}
  /\ gUses' = Uses(used \/ n.usedGlobal, globalAverage, fetchState = "done")
  /\ modalHidden' = IF n.b.rawAverage.k = "undef" THEN modalHidden ELSE FALSE
  /\ call' = [op |-> "showBreakdown", idx |-> i, ret |-> n.ret, f |-> n.f,
              outcome |-> IF n.b.rawAverage.k = "undef" THEN "TypeError" ELSE "returned"]

Analysed(i, t) == Broken(i, neuralNetworkPredict(t.b, globalAverage), t.usedGlobal)

\* showBreakdown(name), from the button of the c-th rendered card
ShowBreakdown(c) ==
  /\ c \in 1..Len(container)
  /\ Analysed(Find(businessesData, container[c].name),
              calculateTrustScore(
                businessesData[Find(businessesData, container[c].name)], globalAverage))
  /\ UNCHANGED <<globalAverage, fetchState, container, categoryFilter, sortSelect, first>>

\* "click" on #closeModal
CloseModal ==
  /\ modalHidden = FALSE
  /\ modalHidden' = TRUE
  /\ call' = [NoCall EXCEPT !.op = "closeModal", !.outcome = "returned"]
  /\ entropyReads' = {}
  /\ gUses' = {}
  /\ UNCHANGED <<businessesData, globalAverage, fetchState, container,
                 categoryFilter, sortSelect, first>>

Next ==
  \/ \E data \in FetchDatasets : FetchResolved(data)
  \/ \E v \in FilterValues : CategoryFilterChange(v)
  \/ \E v \in SortValues : SortSelectChange(v)
  \/ \E c \in 1..MaxBusinesses : ShowBreakdown(c)
  \/ CloseModal

Spec == Init /\ [][Next]_vars

(***************************************************************************)
(* The engine's functions called directly on one business.  The state is   *)
(* the one the fetch callback has made before it renders: businessesData   *)
(* holds the dataset as parsed and computeGlobalAverage() has run.  The    *)
(* functions are applied, in any order and any number of times, to         *)
(* businessesData[1]; the second business only contributes to the mean.    *)
(***************************************************************************)
DatePatterns == {"asc", "desc"}

\* the scores with dates that ascend or descend along the array
Dated(scores, pat) ==
  [i \in 1..Len(scores) |->
     [score |-> scores[i], date |-> IF pat = "asc" THEN i ELSE Len(scores) + 1 - i]]

TestRatings ==
  {Dated(sc, pat) : sc \in UNION {[1..n -> 1..5] : n \in 0..MaxRatings},
                    pat \in DatePatterns}
  \cup {Dated([i \in 1..n |-> sc], "asc") : n \in 1..MaxUniform, sc \in 1..5}

ContextRatings ==
  {Dated(sc, "asc") : sc \in {<<>>, <<1>>, <<5>>, <<1, 1, 1, 1, 1>>}}

Harness(ratingSets, contexts) ==
  /\ businessesData \in {<<Business("A", "food", r), Business("B", "food", c)>> :
                           r \in ratingSets, c \in contexts}
  /\ globalAverage = computeGlobalAverage(businessesData)
  /\ fetchState = "done"
  /\ container = <<>>
  /\ modalHidden = TRUE
  /\ categoryFilter = "all"
  /\ sortSelect = "high"
  /\ call = NoCall
  /\ entropyReads = {}
  /\ gUses = {}
  /\ first = NoFirst

FnInit == Harness(TestRatings, ContextRatings)

pageVars == <<globalAverage, fetchState, container, modalHidden, categoryFilter, sortSelect>>

TrustCalled(t) ==
  /\ businessesData' = [businessesData EXCEPT ![1] = t.b]
  /\ call' = [NoCall EXCEPT !.op = "calculateTrustScore", !.idx = 1, !.ret = t.ret,
                            !.outcome = "returned"]
  /\ entropyReads' = {}
  /\ gUses' = Uses(t.usedGlobal, globalAverage, TRUE)
  /\ first' = IF first.score.k = "none"
                THEN [first EXCEPT !.score = t.ret, !.rawAverage = t.b.rawAverage,
                                   !.entropy = t.b.entropy,
                                   !.finalTrust = t.b.finalTrust]
                ELSE [first EXCEPT !.trustAgain = TRUE]
  /\ UNCHANGED pageVars

\* calculateTrustScore(businessesData[1])
CallCalculateTrustScore ==
  TrustCalled(calculateTrustScore(businessesData[1], globalAverage))

\* calculateVolatility(businessesData[1])
CallCalculateVolatility ==
  /\ call' = [NoCall EXCEPT !.op = "calculateVolatility", !.idx = 1,
                            !.ret = calculateVolatility(businessesData[1]),
                            !.outcome = "returned"]
  /\ entropyReads' = {}
  /\ gUses' = {}
  /\ UNCHANGED <<businessesData, first>>
  /\ UNCHANGED pageVars

FeaturesCalled(e) ==
  /\ businessesData' = [businessesData EXCEPT ![1] = e.b]
  /\ call' = [NoCall EXCEPT !.op = "extractFeatures", !.idx = 1, !.f = e.f,
                            !.outcome = "returned"]
  /\ entropyReads' = {e.f.entropy}
  /\ gUses' = {}
  /\ UNCHANGED first
  /\ UNCHANGED pageVars

\* extractFeatures(businessesData[1])
CallExtractFeatures == FeaturesCalled(extractFeatures(businessesData[1]))

PredictCalled(n) ==
  /\ businessesData' = [businessesData EXCEPT ![1] = n.b]
  /\ call' = [NoCall EXCEPT !.op = "neuralNetworkPredict", !.idx = 1, !.ret = n.ret,
                            !.f = n.f, !.outcome = "returned"]
  /\ entropyReads' = {n.f.entropy}
  /\ gUses' = Uses(n.usedGlobal, globalAverage, TRUE)
  /\ first' = IF first.fraud.k = "none"
                THEN [first EXCEPT !.fraud = n.ret]
                ELSE [first EXCEPT !.fraudAgain = TRUE]
  /\ UNCHANGED pageVars

\* neuralNetworkPredict(businessesData[1])
CallNeuralNetworkPredict ==
  PredictCalled(neuralNetworkPredict(businessesData[1], globalAverage))

FnNext ==
  \/ CallCalculateTrustScore
  \/ CallCalculateVolatility
  \/ CallExtractFeatures
  \/ CallNeuralNetworkPredict

FnSpec == FnInit /\ [][FnNext]_vars

(***************************************************************************)
(* extractFeatures on rating arrays longer than the recent window: a run   *)
(* of filler ratings, dated along one of three patterns, with two special  *)
(* ratings at any two positions.                                           *)
(***************************************************************************)
LongPatterns == {"asc", "desc", "same"}

BaseDate(pat, k) ==
  IF pat = "asc" THEN 10 + k ELSE IF pat = "desc" THEN 40 - k ELSE 20

\* the dates of the two special ratings: before, equal to, or after the fillers'
SpecialDates == {<<1, 2>>, <<2, 1>>, <<1, 1>>, <<20, 20>>, <<99, 1>>}

\* the scores of the special ratings and of the fillers
SpecialScores == {<<5, 1>>, <<1, 5>>}

Long(n, i, j, pat, sc, d) ==
  [k \in 1..n |->
     IF k = i THEN [score |-> sc[1], date |-> d[1]]
     ELSE IF k = j THEN [score |-> sc[1], date |-> d[2]]
     ELSE [score |-> sc[2], date |-> BaseDate(pat, k)]]

LongRatings ==
  {<<>>, <<[score |-> 5, date |-> 1]>>}
  \cup UNION {{Long(n, i, j, pat, sc, d) :
                 i \in 1..n, j \in 1..n, pat \in LongPatterns,
                 sc \in SpecialScores, d \in SpecialDates} :
              n \in 2..MaxLong}

SortInit == Harness({r \in LongRatings : TRUE}, {<<>>})

SortNext == CallExtractFeatures

SortSpec == SortInit /\ [][SortNext]_vars

(***************************************************************************)
(* Properties.                                                             *)
(***************************************************************************)
\* the business the direct calls are applied to
Subject == businessesData[1]

IsUniform(r) == Len(r) >= 1 /\ \A i \in 1..Len(r) : r[i].score = r[1].score

\* the integer nearest to n/d (d > 0), halves up
RoundHalfUp(n, d) == (2 * n + d) \div (2 * d)

\* C1: for a business with at least one rating, evaluated against the mean of
\* a dataset of scores in 1..5, calculateTrustScore returns an integer in
\* 0..100 and neuralNetworkPredict returns a number in [0,1], never NaN or
\* undefined.
C1_ScoresInRange ==
  Len(Subject.ratings) >= 1 =>
    /\ call.op = "calculateTrustScore" =>
         call.ret.k = "num" /\ call.ret.d = 1 /\ call.ret.n \in 0..100
    /\ call.op = "neuralNetworkPredict" =>
         call.ret.k = "num" /\ 0 <= call.ret.n /\ call.ret.n <= call.ret.d

\* C1 witness: both functions have been called on a business with ratings
C1_Witness ==
  /\ call.op = "neuralNetworkPredict"
  /\ Len(Subject.ratings) >= 1
  /\ first.score.k = "num"
  /\ call.ret.k = "num"
  /\ call.ret.n > 0

\* C2 (as stated): calculateTrustScore on a business with empty ratings returns
\* 0 and leaves the cached rawAverage and entropy equal to 0.
C2_EmptyYieldsZeros ==
  (call.op = "calculateTrustScore" /\ Len(Subject.ratings) = 0) =>
    /\ call.ret = I(0)
    /\ Subject.rawAverage = I(0)
    /\ Subject.entropy = I(0)

\* C3 (as stated): calculateVolatility on a business with zero ratings ends in
\* InsufficientDataError and never returns NaN.
C3_VolatilityFails ==
  (call.op = "calculateVolatility" /\ Len(Subject.ratings) = 0) =>
    /\ call.outcome = "InsufficientDataError"
    /\ call.ret.k # "nan"

\* C4 (as stated): loading a dataset with zero ratings in total ends in
\* InsufficientDataError and never stores NaN in globalAverage.
C4_GlobalAverageFails ==
  (call.op = "fetchCallback" /\ Len(AllScores(businessesData)) = 0) =>
    /\ call.outcome = "InsufficientDataError"
    /\ globalAverage.k # "nan"

\* C5: with ratings and globalAverage unchanged, after any sequence of
\* calculateTrustScore / neuralNetworkPredict calls a calculateTrustScore call
\* returns what the first one returned and the cached rawAverage, entropy and
\* finalTrust keep the values the first call gave them; a neuralNetworkPredict
\* call returns what the first one returned.
C5_Idempotent ==
  /\ call.op = "calculateTrustScore" => call.ret = first.score
  /\ first.score.k # "none" =>
       /\ Subject.rawAverage = first.rawAverage
       /\ Subject.entropy = first.entropy
       /\ Subject.finalTrust = first.finalTrust
  /\ call.op = "neuralNetworkPredict" => call.ret = first.fraud

\* C5 witness: both functions have been called again on a business with ratings
C5_Witness ==
  /\ first.trustAgain
  /\ first.fraudAgain
  /\ call.op = "neuralNetworkPredict"
  /\ Len(Subject.ratings) >= 1

\* the number of ratings that follow rating i in chronological order, ratings
\* of equal date in array order
LaterThan(r, i) ==
  Cardinality({j \in 1..Len(r) :
                 r[j].date > r[i].date \/ (r[j].date = r[i].date /\ j > i)})

\* the ratings among the 10 chronologically latest
LatestTen(r) == {i \in 1..Len(r) : LaterThan(r, i) < 10}

FivesIn(r, w) == Cardinality({i \in w : r[i].score = 5})

\* C6: recentFiveRatio is the fraction of five-star ratings among the
\* min(v,10) chronologically latest ratings, whatever the order of the array,
\* ratings of equal date taken in array order; it is 0 for zero ratings.
C6_RecentWindow ==
  call.op = "extractFeatures" =>
    /\ call.f.recentFiveRatio.k = "num"
    /\ IF Len(Subject.ratings) = 0
         THEN call.f.recentFiveRatio = I(0)
         ELSE /\ Cardinality(LatestTen(Subject.ratings))
                   = (IF Len(Subject.ratings) < 10 THEN Len(Subject.ratings) ELSE 10)
              /\ call.f.recentFiveRatio.n * Cardinality(LatestTen(Subject.ratings))
                   = call.f.recentFiveRatio.d
                       * FivesIn(Subject.ratings, LatestTen(Subject.ratings))

\* C6 witness: 12 ratings of distinct dates whose two earliest are the only
\* five-star ratings and stand away from the front of the array
C6_Witness ==
  /\ call.op = "extractFeatures"
  /\ Len(Subject.ratings) = 12
  /\ \A i, j \in 1..12 : i # j => Subject.ratings[i].date # Subject.ratings[j].date
  /\ \E i, j \in 3..12 :
       /\ i # j
       /\ Subject.ratings[i].date = 1
       /\ Subject.ratings[j].date = 2
       /\ \A k \in 1..12 : Subject.ratings[k].score = 5 <=> k \in {i, j}
  /\ call.f.recentFiveRatio = I(0)

\* C7: for v >= 1 ratings of one score s, calculateTrustScore caches entropy 0
\* and returns round(((v/(v+15))*s + (15/(v+15))*globalAverage)/5*80), halves
\* up; ratings [5,5,5,5,5] with globalAverage 3 give score 56.
C7_UniformRatings ==
  (call.op = "calculateTrustScore" /\ IsUniform(Subject.ratings)) =>
    /\ Subject.entropy = I(0)
    /\ globalAverage.k = "num"
    /\ call.ret =
         I(RoundHalfUp(16 * (Len(Subject.ratings) * Subject.ratings[1].score
                               * globalAverage.d + 15 * globalAverage.n),
                       (Len(Subject.ratings) + 15) * globalAverage.d))
    /\ (Len(Subject.ratings) = 5 /\ Subject.ratings[1].score = 5 /\ globalAverage = I(3))
         => (call.ret = I(56) /\ Subject.finalTrust = I(56))

\* C7 witness: the worked example
C7_Witness ==
  /\ call.op = "calculateTrustScore"
  /\ Len(Subject.ratings) = 5
  /\ \A i \in 1..5 : Subject.ratings[i].score = 5
  /\ globalAverage = I(3)
  /\ call.ret = I(56)

\* C8 (as stated): every value extractFeatures reads from b.entropy has been
\* written by calculateTrustScore, also for a business with zero ratings.
C8_EntropyWritten == \A v \in entropyReads : v.k = "num"

\* C9: no evaluation reads globalAverage before computeGlobalAverage has run
\* on the loaded dataset, and the value read is the mean of all scores of
\* businessesData.
C9_GlobalAverageReady ==
  \A u \in gUses :
    /\ u.computed
    /\ u.g.k = "num"
    /\ u.g.n * Len(AllScores(businessesData)) = u.g.d * SumSeq(AllScores(businessesData))

\* C9 witness: a change event after the load has evaluated a trust score
C9_Witness ==
  /\ call.op = "renderBusinesses"
  /\ fetchState = "done"
  /\ gUses # {}

\* C10: calculateVolatility and extractFeatures leave the business record
\* (ratings and cache fields) unchanged, neuralNetworkPredict changes it only
\* as its calculateTrustScore call does, and none of the four changes
\* globalAverage.
C10_Frame ==
  [][/\ call'.op \in {"calculateVolatility", "extractFeatures"} =>
          businessesData' = businessesData
     /\ call'.op = "neuralNetworkPredict" =>
          businessesData' =
            [businessesData EXCEPT ![1] = calculateTrustScore(Subject, globalAverage).b]
     /\ globalAverage' = globalAverage]_vars

\* C10 witness: extractFeatures has run on an evaluated business whose ratings
\* are not in date order
C10_Witness ==
  /\ call.op = "extractFeatures"
  /\ Subject.entropy.k = "num"
  /\ \E i, j \in 1..Len(Subject.ratings) :
       i < j /\ Subject.ratings[i].date > Subject.ratings[j].date

====
